---- MODULE Spec2Model ----
(***************************************************************************)
(* Model of the tender tracker's engine (src/app.py): the Excel upsert     *)
(* into table 'licitaciones', the manual form, the status board.           *)
(*                                                                         *)
(* Text is a sequence of one-character strings, so that strip(), lower(),  *)
(* split() and float() are computed and not assumed.  A spreadsheet cell   *)
(* is a record [t, s, n]: t = "nan" (blank cell, pandas NaN), "str" (text  *)
(* s), "num" (number n), "ts" (a date cell, day n of November 2026) or     *)
(* "none" (Python's None, what r.get answers for a header not in the sheet).*)
(***************************************************************************)
EXTENDS Integers, Sequences, FiniteSets, TLC

\* ------------------------------------------------------------------ text

\* Python's whitespace, as far as the alphabet of the model goes.
WS == {" ", "\n", "\t"}

UpperChars == <<"A","B","C","D","E","F","G","H","I","J","K","L","M","N","O","P","Q","R","S","T","U","V","W","X","Y","Z","Á","É","Í","Ó","Ú","Ñ">>
LowerChars == <<"a","b","c","d","e","f","g","h","i","j","k","l","m","n","o","p","q","r","s","t","u","v","w","x","y","z","á","é","í","ó","ú","ñ">>

\* str.lower() / str.upper() on one character
LowerChar(c) ==
  IF \E i \in 1..Len(UpperChars) : UpperChars[i] = c
  THEN LowerChars[CHOOSE i \in 1..Len(UpperChars) : UpperChars[i] = c]
  ELSE c

UpperChar(c) ==
  IF \E i \in 1..Len(LowerChars) : LowerChars[i] = c
  THEN UpperChars[CHOOSE i \in 1..Len(LowerChars) : LowerChars[i] = c]
  ELSE c

Lower(s) == [i \in 1..Len(s) |-> LowerChar(s[i])]
Upper(s) == [i \in 1..Len(s) |-> UpperChar(s[i])]

RECURSIVE LStrip(_)
LStrip(s) == IF s # <<>> /\ Head(s) \in WS THEN LStrip(Tail(s)) ELSE s

RECURSIVE RStrip(_)
RStrip(s) ==
  IF s # <<>> /\ s[Len(s)] \in WS THEN RStrip(SubSeq(s, 1, Len(s) - 1)) ELSE s

\* str.strip()
Strip(s) == RStrip(LStrip(s))

\* str.split(): the maximal runs of non-whitespace characters, in order
RECURSIVE SplitFrom(_, _, _)
SplitFrom(s, cur, acc) ==
  IF s = <<>> THEN (IF cur = <<>> THEN acc ELSE Append(acc, cur))
  ELSE IF Head(s) \in WS
       THEN SplitFrom(Tail(s), <<>>, IF cur = <<>> THEN acc ELSE Append(acc, cur))
       ELSE SplitFrom(Tail(s), Append(cur, Head(s)), acc)

Split(s) == SplitFrom(s, <<>>, <<>>)

\* " ".join(words)
RECURSIVE JoinSp(_)
JoinSp(ws) ==
  IF ws = <<>> THEN <<>>
  ELSE IF Len(ws) = 1 THEN ws[1]
  ELSE ws[1] \o <<" ">> \o JoinSp(Tail(ws))

\* s contains sub as a substring ("sub in s")
Contains(s, sub) ==
  \E i \in 1..(Len(s) - Len(sub) + 1) : SubSeq(s, i, i + Len(sub) - 1) = sub

\* ------------------------------------------------------------------ cells

NaN == [t |-> "nan", s |-> <<>>, n |-> 0]
StrCell(x) == [t |-> "str", s |-> x, n |-> 0]
NumCell(k) == [t |-> "num", s |-> <<>>, n |-> k]
TsCell(d) == [t |-> "ts", s |-> <<>>, n |-> d]
NoneCell == [t |-> "none", s |-> <<>>, n |-> 0]

DigitChars == <<"0","1","2","3","4","5","6","7","8","9">>
IsDigit(c) == \E i \in 1..10 : DigitChars[i] = c
DigitVal(c) == (CHOOSE i \in 1..10 : DigitChars[i] = c) - 1

RECURSIVE NatStr(_)
NatStr(k) == IF k < 10 THEN <<DigitChars[k + 1]>> ELSE NatStr(k \div 10) \o <<DigitChars[(k % 10) + 1]>>

IntStr(k) == IF k < 0 THEN <<"-">> \o NatStr(-k) ELSE NatStr(k)

TwoDigits(k) == <<DigitChars[(k \div 10) + 1], DigitChars[(k % 10) + 1]>>

\* date.isoformat() of day d of November 2026
IsoFormat(d) == <<"2","0","2","6","-","1","1","-">> \o TwoDigits(d)

\* Python truthiness of a cell: NaN is a float and is truthy, "" and 0 are falsy
Truthy(c) ==
  CASE c.t = "nan" -> TRUE
    [] c.t = "str" -> c.s # <<>>
    [] c.t = "num" -> c.n # 0
    [] c.t = "ts" -> TRUE
    [] c.t = "none" -> FALSE

\* str(cell)
PyStr(c) ==
  CASE c.t = "nan" -> <<"n","a","n">>
    [] c.t = "str" -> c.s
    [] c.t = "num" -> IntStr(c.n)
    [] c.t = "ts" -> IsoFormat(c.n) \o <<" ","0","0",":","0","0",":","0","0">>
    [] c.t = "none" -> <<"N","o","n","e">>

\* str(v or "").strip(), the text conversion of every text field and of the key
_txt(v) == Strip(IF Truthy(v) THEN PyStr(v) ELSE <<>>)

\* ------------------------------------------------------------------ column resolver

\* The value _pick_col returns when no candidate matches (Python's None); it
\* is no header, since a header's elements are single characters.
None == <<"None">>

\* " ".join(str(s or "").strip().lower().split())
_norm_col(s) == JoinSp(Split(Lower(Strip(s))))

\* norm_map[key] of the dict {_norm_col(c): c for c in cols}: a later header
\* overwrites an earlier one with the same normal form
NormMapGet(cols, key) ==
  cols[CHOOSE i \in 1..Len(cols) :
         /\ _norm_col(cols[i]) = key
         /\ \A j \in (i + 1)..Len(cols) : _norm_col(cols[j]) # key]

\* _pick_col with a fallback: the first header when no candidate matches
RECURSIVE _pick_col_or_first(_, _)
_pick_col_or_first(cols, candidates) ==
  IF candidates = <<>> THEN (IF cols = <<>> THEN None ELSE cols[1])
  ELSE IF \E i \in 1..Len(cols) : _norm_col(cols[i]) = _norm_col(Head(candidates))
       THEN NormMapGet(cols, _norm_col(Head(candidates)))
       ELSE _pick_col_or_first(cols, Tail(candidates))

\* _pick_col that lets a later candidate win: the loop runs to its end
RECURSIVE _pick_col_last(_, _)
_pick_col_last(cols, candidates) ==
  IF candidates = <<>> THEN None
  ELSE IF _pick_col_last(cols, Tail(candidates)) # None
       THEN _pick_col_last(cols, Tail(candidates))
       ELSE IF \E i \in 1..Len(cols) : _norm_col(cols[i]) = _norm_col(Head(candidates))
            THEN NormMapGet(cols, _norm_col(Head(candidates)))
            ELSE None

RECURSIVE _pick_col(_, _)
_pick_col(cols, candidates) ==
  IF candidates = <<>> THEN None
  ELSE IF \E i \in 1..Len(cols) : _norm_col(cols[i]) = _norm_col(Head(candidates))
       THEN NormMapGet(cols, _norm_col(Head(candidates)))
       ELSE _pick_col(cols, Tail(candidates))

CandClave ==
  << <<"N","U","M","E","R","O"," ","D","E"," ","L","A"," ","L","I","C","I","T","A","C","I","Ó","N">>,
     <<"N","U","M","E","R","O"," ","D","E"," ","L","A"," ","L","I","C","I","T","A","C","I","O","N">>,
     <<"C","L","A","V","E">>,
     <<"E","X","P","E","D","I","E","N","T","E">> >>

CandTitulo ==
  << <<"T","I","T","U","L","O">>,
     <<"D","E","S","C","R","I","P","C","I","O","N">>,
     <<"E","S","P","E","C","I","A","L","I","D","A","D"," ","S","E","R","V",".","I","N","T"," ","(","L","A","B",")">> >>

CandMonto ==
  << <<"M","O","N","T","O">>,
     <<"M","O","N","T","O"," ","E","S","T","I","M","A","D","O">>,
     <<"I","M","P","O","R","T","E">> >>

CandJa ==
  << <<"J","U","N","T","A"," ","D","E"," ","A","C","L","A","R","A","C","I","O","N","E","S">>,
     <<"J","A">>,
     <<"J","U","N","T","A">> >>

CandApertura ==
  << <<"A","P","E","R","T","U","R","A">>,
     <<"P","R","O","P","U","E","S","T","A"," ","E","C","O","N","O","M","I","C","A">> >>

CandFallo == << <<"F","A","L","L","O">> >>

CandEstatus ==
  << <<"E","S","T","A","T","U","S"," ","D","E"," ","L","A"," ","L","I","C","I","T","A","C","I","O","N">>,
     <<"E","S","T","A","T","U","S">> >>

CandSolicitaApoyo ==
  << <<"S","O","L","I","C","I","T","A"," ","A","P","O","Y","O">>,
     <<"S","O","L","I","C","I","T","U","D"," ","A","P","O","Y","O">>,
     <<"S","O","L","I","C","I","T","O"," ","A","P","O","Y","O">>,
     <<"A","P","O","Y","O">>,
     <<"S","O","L","I","C","I","T","A","_","A","P","O","Y","O">>,
     <<"S","O","L","I","C","I","T","U","D"," ","D","E"," ","A","P","O","Y","O">> >>

\* The col_* locals of upsert_licitaciones_from_excel, for the fields modelled
ColumnMap(cols) ==
  [ col_clave |-> _pick_col(cols, CandClave),
    col_titulo |-> _pick_col(cols, CandTitulo),
    col_monto |-> _pick_col(cols, CandMonto),
    col_ja |-> _pick_col(cols, CandJa),
    col_apertura |-> _pick_col(cols, CandApertura),
    col_fallo |-> _pick_col(cols, CandFallo),
    col_estatus |-> _pick_col(cols, CandEstatus),
    col_solicita_apoyo |-> _pick_col(cols, CandSolicitaApoyo) ]

\* ------------------------------------------------------------------ cell conversions

\* r.get(col): the cell of row r under header col (headers of a sheet are
\* distinct), None when the sheet has no such header
Get(cols, r, col) ==
  IF \E i \in 1..Len(cols) : cols[i] = col
  THEN r[CHOOSE i \in 1..Len(cols) : cols[i] = col]
  ELSE NoneCell

\* pd.notna(cell)
NotNa(c) == c.t \notin {"nan", "none"}

RECURSIVE DigitsVal(_, _)
DigitsVal(s, acc) ==
  IF s = <<>> THEN acc ELSE DigitsVal(Tail(s), 10 * acc + DigitVal(Head(s)))

AllDigits(s) == s # <<>> /\ \A i \in 1..Len(s) : IsDigit(s[i])

\* float(s) for text: surrounding whitespace and one sign are accepted, then
\* digits only (the alphabet has no ".", "e", "_", "inf"); anything else,
\* the empty string and "1,000" included, is a ValueError
ParseFloat(s) ==
  LET u == Strip(s)
      body == IF u # <<>> /\ Head(u) \in {"+", "-"} THEN Tail(u) ELSE u
      neg == u # <<>> /\ Head(u) = "-"
  IN IF AllDigits(body)
     THEN [ok |-> TRUE, v |-> IF neg THEN -DigitsVal(body, 0) ELSE DigitsVal(body, 0)]
     ELSE [ok |-> FALSE, v |-> 0]

\* float(cell): raises (ok = FALSE) on unparseable text, on a date cell and on None
PyFloat(c) ==
  CASE c.t = "num" -> [ok |-> TRUE, v |-> c.n]
    [] c.t = "str" -> ParseFloat(c.s)
    [] c.t = "ts" -> [ok |-> FALSE, v |-> 0]
    [] c.t = "nan" -> [ok |-> TRUE, v |-> 0]
    [] c.t = "none" -> [ok |-> FALSE, v |-> 0]

\* the "monto_estimado" entry of the payload
MontoOf(cols, r, col) ==
  IF col # None /\ NotNa(Get(cols, r, col))
  THEN PyFloat(Get(cols, r, col))
  ELSE [ok |-> TRUE, v |-> 0]

\* the calendar of the model: the days of November 2026
NovemberDays == 1..30

\* pd.to_datetime(text, errors="coerce") on the texts of the model: an ISO
\* date of November 2026 parses to its day, anything else is NaT (0)
ParseIsoDay(s) ==
  IF /\ Len(s) = 10
     /\ SubSeq(s, 1, 8) = <<"2","0","2","6","-","1","1","-">>
     /\ IsDigit(s[9]) /\ IsDigit(s[10])
     /\ 10 * DigitVal(s[9]) + DigitVal(s[10]) \in NovemberDays
  THEN 10 * DigitVal(s[9]) + DigitVal(s[10])
  ELSE 0

_to_date_str(x) ==
  CASE x.t \in {"nan", "none"} -> <<>>
    [] x.t = "ts" -> IsoFormat(x.n)
    [] x.t = "str" -> (IF ParseIsoDay(x.s) = 0 THEN <<>> ELSE IsoFormat(ParseIsoDay(x.s)))
    [] x.t = "num" -> (IF x.n >= 0 THEN <<"1","9","7","0","-","0","1","-","0","1">>
                                  ELSE <<"1","9","6","9","-","1","2","-","3","1">>)

AffirmativeApoyo ==
  { <<"S","I">>, <<"S","Í">>, <<"X">>, <<"1">>, <<"T","R","U","E">>,
    <<"L","I","S","T","O">>, <<"O","K">> }

_flag_apoyo(v) ==
  LET s == Upper(_txt(v))
  IN IF s = <<>> THEN 0
     ELSE IF s \in AffirmativeApoyo THEN 1
     ELSE IF Contains(s, <<"A","P","O","Y","O">>) \/ Contains(s, <<"S","O","L","I","C","I","T">>) THEN 1
     ELSE 0

\* _flag_carta(v): the cell of the column of letters
_flag_carta(v) ==
  LET s == Upper(_txt(v))
  IN IF s = <<>> THEN 0
     ELSE IF \/ Contains(s, <<"C","A","R","T","A">>) \/ Contains(s, <<"E","N","V","I","A","D">>)
             \/ Contains(s, <<"L","I","S","T","O">>) \/ Contains(s, <<"A","P","O","Y","O">>) THEN 1
     ELSE 0

\* ------------------------------------------------------------------ inputs

\* Longest sheet (rows) an import is given
MaxRows == 2

\* Sheet layouts: the headers of a sheet, each with the field of the row pool
\* whose cells it carries.  Headers differ from the candidates in case and
\* spacing.
LayoutFull ==
  << <<<<" ","C","l","a","v","e">>, "clave">>, <<<<"T","i","t","u","l","o">>, "titulo">>, <<<<"m","o","n","t","o"," "," ","e","s","t","i","m","a","d","o">>, "monto">>,
     <<<<"F","A","L","L","O"," ">>, "fallo">>, <<<<"E","s","t","a","t","u","s">>, "estatus">>, <<<<"A","p","o","y","o">>, "apoyo">> >>

LayoutShort == << <<<<"E","X","P","E","D","I","E","N","T","E">>, "clave">>, <<<<"D","E","S","C","R","I","P","C","I","O","N">>, "titulo">> >>

LayoutNoKey == << <<<<"F","O","L","I","O">>, "clave">>, <<<<"T","I","T","U","L","O">>, "titulo">>, <<<<"M","O","N","T","O">>, "monto">> >>

\* Sheet rows, by field
RowA ==
  [clave |-> StrCell(<<"A">>), titulo |-> StrCell(<<"X">>), monto |-> NumCell(1000),
   fallo |-> TsCell(20), estatus |-> StrCell(<<"A","b","i","e","r","t","a">>), apoyo |-> StrCell(<<"s","i">>)]

RowA2 ==
  [clave |-> StrCell(<<"A"," ">>), titulo |-> StrCell(<<"Y">>), monto |-> NaN,
   fallo |-> NaN, estatus |-> NaN, apoyo |-> NaN]

RowB ==
  [clave |-> StrCell(<<"B">>), titulo |-> StrCell(<<"Z">>), monto |-> StrCell(<<"a","b","c">>),
   fallo |-> StrCell(<<"n","/","a">>), estatus |-> StrCell(<<"C","e","r","r","a","d","a">>), apoyo |-> StrCell(<<"n","o">>)]

RowBlank ==
  [clave |-> NaN, titulo |-> NaN, monto |-> NumCell(-5),
   fallo |-> StrCell(<<"2","0","2","6","-","1","1","-","0","5">>), estatus |-> StrCell(<<"A","B","I","E","R","T","A">>), apoyo |-> StrCell(<<"a","p","o","y","o">>)]

RowSpace ==
  [clave |-> StrCell(<<" ">>), titulo |-> StrCell(<<"X">>), monto |-> NumCell(1000),
   fallo |-> TsCell(20), estatus |-> StrCell(<<"C","e","r","r","a","d","a">>), apoyo |-> StrCell(<<"x">>)]

\* The sheets a user uploads: a layout and the rows that occur under it
Sheets ==
  { [L |-> LayoutFull, pool |-> {RowA, RowA2, RowB, RowBlank}],
    [L |-> LayoutShort, pool |-> {RowA2, RowB, RowSpace}],
    [L |-> LayoutNoKey, pool |-> {RowA, RowB}] }

\* A sheet with the three milestone columns, and its rows
LayoutDates ==
  << <<<<"C","l","a","v","e">>, "clave">>,
     <<<<"J","u","n","t","a"," ","d","e"," ","A","c","l","a","r","a","c","i","o","n","e","s">>, "ja">>,
     <<<<"A","P","E","R","T","U","R","A">>, "apertura">>,
     <<<<"F","a","l","l","o">>, "fallo">>,
     <<<<"E","S","T","A","T","U","S">>, "estatus">> >>

RowP ==
  [clave |-> StrCell(<<"P">>), ja |-> TsCell(13), apertura |-> StrCell(<<"2","0","2","6","-","1","1","-","0","8">>),
   fallo |-> StrCell(<<"n","/","a">>), estatus |-> StrCell(<<"A","b","i","e","r","t","a">>)]

RowQ ==
  [clave |-> StrCell(<<"Q">>), ja |-> NaN, apertura |-> TsCell(8),
   fallo |-> TsCell(18), estatus |-> StrCell(<<"A","b","i","e","r","t","a">>)]

RowR ==
  [clave |-> StrCell(<<"R">>), ja |-> NumCell(45000), apertura |-> NaN,
   fallo |-> NaN, estatus |-> StrCell(<<"C","e","r","r","a","d","a">>)]

DateSheet == [L |-> LayoutDates, pool |-> {RowP, RowQ, RowR}]

AllSheets == Sheets \cup {DateSheet}

RowSeqs(pool) == UNION {[1..n -> pool] : n \in 0..MaxRows}

\* The DataFrame of layout L with the rows rs
MkDf(L, rs) ==
  [ cols |-> [i \in 1..Len(L) |-> L[i][1]],
    rows |-> [k \in 1..Len(rs) |-> [i \in 1..Len(L) |-> rs[k][L[i][2]]]] ]

Batches == UNION { {MkDf(s.L, rs) : rs \in RowSeqs(s.pool)} : s \in Sheets }

EmptyDf == [cols |-> <<>>, rows |-> <<>>]

\* What a user types into the form
FormPool ==
  { [clave |-> <<"A"," ">>, titulo |-> <<"M">>, monto_estimado |-> 50,
     junta_aclaraciones |-> <<"2","0","2","6","-","1","1","-","0","9">>, apertura |-> <<>>,
     fallo |-> <<"2","0","2","6","-","1","1","-","1","2">>,
     estatus |-> <<"E","n"," ","g","e","s","t","i","ó","n">>, pidio_apoyo |-> 1, link |-> <<"L">>, notas |-> <<"N">>],
    [clave |-> <<>>, titulo |-> <<>>, monto_estimado |-> 0,
     junta_aclaraciones |-> <<>>, apertura |-> <<>>, fallo |-> <<>>,
     estatus |-> <<"B","o","g","u","s">>, pidio_apoyo |-> 0, link |-> <<>>, notas |-> <<>>] }

\* Forms that differ in their milestone dates
DateForms ==
  { [clave |-> <<"S">>, titulo |-> <<>>, monto_estimado |-> 0,
     junta_aclaraciones |-> <<>>, apertura |-> <<>>, fallo |-> <<>>,
     estatus |-> <<"A","b","i","e","r","t","a">>, pidio_apoyo |-> 0, link |-> <<>>, notas |-> <<>>],
    [clave |-> <<"T">>, titulo |-> <<>>, monto_estimado |-> 0,
     junta_aclaraciones |-> <<"2","0","2","6","-","1","1","-","1","0">>,
     apertura |-> <<"2","0","2","6","-","1","1","-","1","7">>,
     fallo |-> <<"2","0","2","6","-","1","1","-","1","8">>,
     estatus |-> <<"A","b","i","e","r","t","a">>, pidio_apoyo |-> 0, link |-> <<>>, notas |-> <<>>] }

\* One-row sheets with the milestone columns
DateBatches == {MkDf(DateSheet.L, <<r>>) : r \in DateSheet.pool}

NoForm ==
  [clave |-> <<>>, titulo |-> <<>>, monto_estimado |-> 0,
   junta_aclaraciones |-> <<>>, apertura |-> <<>>, fallo |-> <<>>,
   estatus |-> <<>>, pidio_apoyo |-> 0, link |-> <<>>, notas |-> <<>>]

\* ColumnMap of every sheet layout, tabulated once
ColumnMapTable == [c \in {MkDf(s.L, <<>>).cols : s \in AllSheets} |-> ColumnMap(c)]

\* the col_* locals for the headers cols
ColumnsOf(cols) ==
  IF cols \in DOMAIN ColumnMapTable THEN ColumnMapTable[cols] ELSE ColumnMap(cols)

\* ------------------------------------------------------------------ table 'licitaciones'

\* A row of table licitaciones; its id is its position in lic (AUTOINCREMENT,
\* rows are never deleted one by one).  apoyo_id 0 is NULL.
\* The text columns tipo, institucion, unidad, estado, integrador,
\* razon_social and responsable are converted and written exactly as titulo
\* and estatus are; the date columns fecha_publicacion and firma_contrato
\* exactly as junta_aclaraciones, apertura and fallo.

\* the upsert without its lookup: no row is ever found
SelectIdNever(lic, c) == 0

\* SELECT id FROM licitaciones WHERE clave=:c LIMIT 1 (0: no row)
SelectId(lic, c) ==
  IF \E i \in 1..Len(lic) : lic[i].clave = c
  THEN CHOOSE i \in 1..Len(lic) : lic[i].clave = c /\ \A j \in 1..(i - 1) : lic[j].clave # c
  ELSE 0

\* The payload dict of one sheet row; ok = FALSE when float() raised
Payload(cols, m, r) ==
  LET monto == MontoOf(cols, r, m.col_monto)
  IN [ ok |-> monto.ok,
       clave |-> _txt(Get(cols, r, m.col_clave)),
       titulo |-> IF m.col_titulo # None THEN _txt(Get(cols, r, m.col_titulo)) ELSE <<>>,
       monto_estimado |-> monto.v,
       junta_aclaraciones |-> IF m.col_ja # None THEN _to_date_str(Get(cols, r, m.col_ja)) ELSE <<>>,
       apertura |-> IF m.col_apertura # None THEN _to_date_str(Get(cols, r, m.col_apertura)) ELSE <<>>,
       fallo |-> IF m.col_fallo # None THEN _to_date_str(Get(cols, r, m.col_fallo)) ELSE <<>>,
       estatus |-> IF m.col_estatus # None THEN _txt(Get(cols, r, m.col_estatus)) ELSE <<>>,
       pidio_apoyo |-> IF m.col_solicita_apoyo # None
                       THEN _flag_apoyo(Get(cols, r, m.col_solicita_apoyo)) ELSE 0,
       apoyo_id |-> 0,
       link |-> <<>>,
       notas |-> <<>> ]

\* Payload of every row of every sheet, tabulated once
PayloadTable ==
  [x \in UNION { {<<MkDf(s.L, <<r>>).cols, MkDf(s.L, <<r>>).rows[1]>> : r \in s.pool} : s \in AllSheets }
     |-> Payload(x[1], ColumnsOf(x[1]), x[2])]

\* the payload of row r under the headers cols
PayloadOf(cols, m, r) ==
  IF <<cols, r>> \in DOMAIN PayloadTable THEN PayloadTable[<<cols, r>>] ELSE Payload(cols, m, r)

\* the UPDATE of the upsert with the INSERT's column list: link and notas too
UpsertUpdateAll(rec, p) ==
  [rec EXCEPT !.titulo = p.titulo,
              !.monto_estimado = p.monto_estimado,
              !.junta_aclaraciones = p.junta_aclaraciones,
              !.apertura = p.apertura,
              !.fallo = p.fallo,
              !.estatus = p.estatus,
              !.pidio_apoyo = p.pidio_apoyo,
              !.link = p.link,
              !.notas = p.notas]

\* the UPDATE of the upsert that stops after the amount
UpsertUpdateHalf(rec, p) ==
  [rec EXCEPT !.titulo = p.titulo,
              !.monto_estimado = p.monto_estimado]

\* UPDATE licitaciones SET ... WHERE id=:id of the upsert
UpsertUpdate(rec, p) ==
  [rec EXCEPT !.titulo = p.titulo,
              !.monto_estimado = p.monto_estimado,
              !.junta_aclaraciones = p.junta_aclaraciones,
              !.apertura = p.apertura,
              !.fallo = p.fallo,
              !.estatus = p.estatus,
              !.pidio_apoyo = p.pidio_apoyo]

\* INSERT INTO licitaciones (...) VALUES (...), of the upsert and of the form
InsertRow(p) ==
  [ clave |-> p.clave, titulo |-> p.titulo, monto_estimado |-> p.monto_estimado,
    junta_aclaraciones |-> p.junta_aclaraciones, apertura |-> p.apertura,
    fallo |-> p.fallo, estatus |-> p.estatus, pidio_apoyo |-> p.pidio_apoyo,
    apoyo_id |-> p.apoyo_id, link |-> p.link, notas |-> p.notas ]

\* UpsertRow counting an update as an insert
UpsertRowCountsInsert(st, cols, m, r) ==
  IF st.raised THEN st
  ELSE LET p == PayloadOf(cols, m, r)
           id == SelectId(st.lic, p.clave)
       IN IF p.clave = <<>> THEN st
          ELSE IF ~p.ok THEN [st EXCEPT !.raised = TRUE]
          ELSE IF id # 0
               THEN [st EXCEPT !.lic[id] = UpsertUpdate(@, p), !.inserted = @ + 1]
               ELSE [st EXCEPT !.lic = Append(@, InsertRow(p)), !.inserted = @ + 1]

\* One iteration of "for _, r in df.iterrows()".  st = [lic, inserted,
\* updated, raised]; once float() has raised, the loop is over.
UpsertRow(st, cols, m, r) ==
  IF st.raised THEN st
  ELSE LET p == PayloadOf(cols, m, r)
           id == SelectId(st.lic, p.clave)
       IN IF p.clave = <<>> THEN st
          ELSE IF ~p.ok THEN [st EXCEPT !.raised = TRUE]
          ELSE IF id # 0
               THEN [st EXCEPT !.lic[id] = UpsertUpdate(@, p), !.updated = @ + 1]
               ELSE [st EXCEPT !.lic = Append(@, InsertRow(p)), !.inserted = @ + 1]

RECURSIVE UpsertRows(_, _, _, _)
UpsertRows(st, cols, m, rows) ==
  IF rows = <<>> THEN st
  ELSE UpsertRows(UpsertRow(st, cols, m, Head(rows)), cols, m, Tail(rows))

\* df.empty: no rows or no columns
DfEmpty(df) == df.rows = <<>> \/ df.cols = <<>>

\* the upsert as a full refresh: the table is emptied first
upsert_after_delete(df, lic) ==
  IF DfEmpty(df) THEN [lic |-> lic, inserted |-> 0, updated |-> 0, raised |-> FALSE]
  ELSE IF ColumnsOf(df.cols).col_clave = None
       THEN [lic |-> lic, inserted |-> 0, updated |-> 0, raised |-> FALSE]
       ELSE UpsertRows([lic |-> <<>>, inserted |-> 0, updated |-> 0, raised |-> FALSE],
                       df.cols, ColumnsOf(df.cols), df.rows)

\* upsert_licitaciones_from_excel(df_excel) on table lic: the table it leaves,
\* the counters, and whether it ended in an exception instead of returning
upsert_licitaciones_from_excel(df, lic) ==
  IF DfEmpty(df) THEN [lic |-> lic, inserted |-> 0, updated |-> 0, raised |-> FALSE]
  ELSE IF ColumnsOf(df.cols).col_clave = None
       THEN [lic |-> lic, inserted |-> 0, updated |-> 0, raised |-> FALSE]
       ELSE UpsertRows([lic |-> lic, inserted |-> 0, updated |-> 0, raised |-> FALSE],
                       df.cols, ColumnsOf(df.cols), df.rows)

\* ------------------------------------------------------------------ manual form and status board

\* The payload of the "Nueva / Editar licitación" form: every text stripped
FormPayload(f) ==
  [ clave |-> Strip(f.clave), titulo |-> Strip(f.titulo), monto_estimado |-> f.monto_estimado,
    junta_aclaraciones |-> Strip(f.junta_aclaraciones), apertura |-> Strip(f.apertura),
    fallo |-> Strip(f.fallo), estatus |-> Strip(f.estatus), pidio_apoyo |-> f.pidio_apoyo,
    apoyo_id |-> 0, link |-> Strip(f.link), notas |-> Strip(f.notas) ]

\* UPDATE licitaciones SET ... WHERE id=:id of the form
FormUpdate(rec, p) ==
  [rec EXCEPT !.clave = p.clave, !.titulo = p.titulo, !.monto_estimado = p.monto_estimado,
              !.junta_aclaraciones = p.junta_aclaraciones, !.apertura = p.apertura,
              !.fallo = p.fallo, !.estatus = p.estatus, !.pidio_apoyo = p.pidio_apoyo,
              !.link = p.link, !.notas = p.notas]

\* column clave without its UNIQUE constraint
UniqueViolationOff(lic, c, id) == FALSE

\* clave TEXT UNIQUE: would writing key c into row id (0: a new row) be refused
UniqueViolation(lic, c, id) == \E i \in 1..Len(lic) : i # id /\ lic[i].clave = c

\* the columns of the status board
estados == << <<"A","b","i","e","r","t","a">>, <<"E","n"," ","a","n","á","l","i","s","i","s">>, <<"E","n"," ","g","e","s","t","i","ó","n">>, <<"C","e","r","r","a","d","a">>, <<"C","a","n","c","e","l","a","d","a">> >>

EstadosSet == {estados[i] : i \in 1..Len(estados)}

\* UPDATE licitaciones SET estatus=:e WHERE id=:id
MoveUpdate(rec, e) == [rec EXCEPT !.estatus = e]

\* ------------------------------------------------------------------ state

VARIABLES
  lic,   \* table licitaciones, in id order
  pre,   \* the table as it was before the last operation
  op,    \* the last operation: "init", "upsert", "create", "edit", "move"
  df,    \* the sheet of the last upsert
  ret,   \* its counters, and whether the last operation raised
  arg,   \* the id, form and target status of the last manual operation
  nops,  \* how many operations have run
  clock, \* the wall clock's date, as a day of November 2026
  HOY,   \* the global HOY = date.today() of the last run of the script
  page,  \* the last page rendered (RESUMEN or TABLERO)
  prev,  \* the page rendered before it
  calc,  \* the last call of semaforo and pos_pct: arguments and results
  pass,  \* for each session, its import in progress: the locals of the upsert
  board, \* the session on page TABLERO: what it rendered and what it moved
  seen,  \* what the last sql_df("SELECT * FROM licitaciones") returned
  wr,    \* the last row written by an import: id, payload, record before it
  apoyos \* table apoyos in id order, its AUTOINCREMENT counter, the table before

vars == <<lic, pre, op, df, ret, arg, nops, clock, HOY, page, prev, calc, pass, board, seen, wr, apoyos>>

\* Longest run of operations explored
MaxOps == 3

NoRet == [inserted |-> 0, updated |-> 0, raised |-> FALSE]
NoArg == [id |-> 0, form |-> NoForm, e |-> <<>>]

\* The wall-clock days explored: the program is started on the first
ClockDays == 10..11
FirstDay == CHOOSE d \in ClockDays : \A e \in ClockDays : d <= e

NoPage == [name |-> "none"]
NoCalc == [name |-> "none"]

\* The sessions (threads of the server) that import; they share the engine
Sessions == 1..2

\* a session that has not pressed "ACTUALIZAR BASE"
NoPass ==
  [pc |-> "idle", df |-> EmptyDf, i |-> 0, id |-> 0, inserted |-> 0, updated |-> 0,
   raised |-> FALSE, keys |-> {}]

NoBoard == [pc |-> "idle", tabla |-> <<>>, id |-> 0, e |-> <<>>]
NoSeen == [tabla |-> <<>>, wr |-> [id |-> 0]]
NoWr == [id |-> 0]

\* CREATE TABLE IF NOT EXISTS apoyos: no row, no id given out yet
NoApoyos == [tabla |-> <<>>, seq |-> 0, antes |-> <<>>]

Init ==
  /\ lic = <<>>
  /\ pre = <<>>
  /\ op = "init"
  /\ df = EmptyDf
  /\ ret = NoRet
  /\ arg = NoArg
  /\ nops = 0
  /\ clock = FirstDay
  /\ HOY = clock
  /\ page = NoPage
  /\ prev = NoPage
  /\ calc = NoCalc
  /\ pass = [s \in Sessions |-> NoPass]
  /\ board = NoBoard
  /\ seen = NoSeen
  /\ wr = NoWr
  /\ apoyos = NoApoyos

\* "ACTUALIZAR BASE": upsert_licitaciones_from_excel(pd.read_excel(file))
Upsert(d) ==
  LET res == upsert_licitaciones_from_excel(d, lic)
  IN /\ lic' = res.lic
     /\ pre' = lic
     /\ op' = "upsert"
     /\ df' = d
     /\ ret' = [inserted |-> res.inserted, updated |-> res.updated, raised |-> res.raised]
     /\ arg' = NoArg

\* "Guardar" with "— Nueva —" selected
Create(f) ==
  LET p == FormPayload(f)
      bad == UniqueViolation(lic, p.clave, 0)
  IN /\ lic' = IF bad THEN lic ELSE Append(lic, InsertRow(p))
     /\ pre' = lic
     /\ op' = "create"
     /\ df' = EmptyDf
     /\ ret' = [NoRet EXCEPT !.raised = bad]
     /\ arg' = [NoArg EXCEPT !.form = f]

\* "Guardar" with an existing id selected; the form only renders when the
\* stored amount is not below the number input's min_value 0.0
Edit(id, f) ==
  LET p == FormPayload(f)
      bad == UniqueViolation(lic, p.clave, id)
  IN /\ id \in 1..Len(lic)
     /\ lic[id].monto_estimado >= 0
     /\ lic' = IF bad THEN lic ELSE [lic EXCEPT ![id] = FormUpdate(@, p)]
     /\ pre' = lic
     /\ op' = "edit"
     /\ df' = EmptyDf
     /\ ret' = [NoRet EXCEPT !.raised = bad]
     /\ arg' = [NoArg EXCEPT !.id = id, !.form = f]

\* the board with Cerrada and Cancelada as final states
MoveNoReopen(id, nuevo) ==
  /\ id \in 1..Len(lic)
  /\ lic[id].estatus \in EstadosSet \ {<<"C","e","r","r","a","d","a">>, <<"C","a","n","c","e","l","a","d","a">>}
  /\ nuevo \in EstadosSet
  /\ nuevo # lic[id].estatus
  /\ lic' = [lic EXCEPT ![id] = MoveUpdate(@, nuevo)]
  /\ pre' = lic
  /\ op' = "move"
  /\ df' = EmptyDf
  /\ ret' = NoRet
  /\ arg' = [NoArg EXCEPT !.id = id, !.e = nuevo]

\* "Actualizar" on a card of the board: the card is in column est, the
\* select box offers the five estados
Move(id, nuevo) ==
  /\ id \in 1..Len(lic)
  /\ lic[id].estatus \in EstadosSet
  /\ nuevo \in EstadosSet
  /\ nuevo # lic[id].estatus
  /\ lic' = [lic EXCEPT ![id] = MoveUpdate(@, nuevo)]
  /\ pre' = lic
  /\ op' = "move"
  /\ df' = EmptyDf
  /\ ret' = NoRet
  /\ arg' = [NoArg EXCEPT !.id = id, !.e = nuevo]

\* every operation counts as one
Step == nops < MaxOps /\ nops' = nops + 1

\* Every interaction runs the script from its first line: HOY = date.today()
Rerun == HOY' = clock

\* the clock does not move, no page is kept, no other session takes a step
Quiet == UNCHANGED <<clock, page, prev, calc, pass, board, seen, wr, apoyos>>

Next ==
  \/ Step /\ Rerun /\ Quiet /\ \E d \in Batches : Upsert(d)
  \/ Step /\ Rerun /\ Quiet /\ \E f \in FormPool : Create(f)
  \/ Step /\ Rerun /\ Quiet /\ \E id \in 1..Len(lic), f \in FormPool : Edit(id, f)
  \/ Step /\ Rerun /\ Quiet /\ \E id \in 1..Len(lic), e \in EstadosSet : Move(id, e)

Spec == Init /\ [][Next]_vars

\* Importing one file again and again: the first "ACTUALIZAR BASE" on an empty
\* table, then the same button with the same uploaded file.
MaxPasses == 3

\* d is the first file imported, or the file of the import before
UpsertFirst(d) == nops = 0

UpsertAgain(d) == nops \in 1..(MaxPasses - 1) /\ d = df

NextTwice ==
  \E d \in Batches :
    /\ UpsertFirst(d) \/ UpsertAgain(d)
    /\ nops' = nops + 1 /\ Rerun /\ Quiet /\ Upsert(d)

SpecTwice == Init /\ [][NextTwice]_vars

\* ------------------------------------------------------------------ urgency and timeline

\* The values the helpers compute with: None, the float NaN, a number
PyNone == [k |-> "none", v |-> 0]
FloatNaN == [k |-> "nan", v |-> 0]
Number(n) == [k |-> "num", v |-> n]

\* x < y on floats and ints: False when either is NaN
Lt(x, y) == x.k = "num" /\ y.k = "num" /\ x.v < y.v

\* pd.notna
notna(x) == x.k = "num"

\* NaT, and the date that is d - 1 days after 2026-11-01
NaT == [k |-> "nat", v |-> 0]
DateOf(d) == [k |-> "date", v |-> d]

\* pd.to_datetime(column, errors="coerce") on one stored text, then .dt.date:
\* 1970-01-01 is 20758 days before 2026-11-01
ToDatetime(s) ==
  IF ParseIsoDay(s) # 0 THEN DateOf(ParseIsoDay(s))
  ELSE IF s = <<"1","9","7","0","-","0","1","-","0","1">> THEN DateOf(1 - 20758)
  ELSE IF s = <<"1","9","6","9","-","1","2","-","3","1">> THEN DateOf(0 - 20758)
  ELSE NaT

\* dias_a(fecha): fecha is a date or NaT; both parsers fail on NaT.  The
\* function has no parameter for today: hoy is the value of the global HOY
\* in the run of the script that calls it.
dias_a(fecha, hoy) == IF fecha.k = "date" THEN Number(fecha.v - hoy) ELSE PyNone

\* the result of Series.apply(f): when some value is a number, every None
\* becomes NaN (float64); when all are None they stay None (object)
SeriesApply(vals) ==
  IF \A i \in 1..Len(vals) : vals[i] = PyNone THEN vals
  ELSE [i \in 1..Len(vals) |-> IF vals[i] = PyNone THEN FloatNaN ELSE vals[i]]

\* semaforo(d): the label's colour (for its emoji) and wording, and the days
\* it prints; "--" is the dash of "no date"
semaforo(d) ==
  IF d = PyNone THEN [band |-> "--", dias |-> PyNone]
  ELSE IF Lt(d, Number(0)) THEN [band |-> "rojo Vencido", dias |-> Number(-d.v)]
  ELSE IF d = Number(0) THEN [band |-> "naranja Hoy", dias |-> PyNone]
  ELSE IF Lt(d, Number(7)) \/ d = Number(7) THEN [band |-> "amarillo En", dias |-> d]
  ELSE [band |-> "verde En", dias |-> d]

\* Python's min(a, b) and max(a, b): the first argument unless the second
\* is smaller (larger)
PyMin2(a, b) == IF Lt(b, a) THEN b ELSE a
PyMax2(a, b) == IF Lt(a, b) THEN b ELSE a

\* min(list) of a non-empty list
RECURSIVE PyMinFrom(_, _)
PyMinFrom(cur, rest) ==
  IF rest = <<>> THEN cur ELSE PyMinFrom(PyMin2(cur, Head(rest)), Tail(rest))

PyMin(vals) == PyMinFrom(Head(vals), Tail(vals))

clamp(x, a, b) == PyMax2(a, PyMin2(b, x))

\* pos_pct(dias, ventana): 100 * (clamp / ventana), kept as the fraction
\* num / den (the rounding of the float division is not modelled)
pos_pct(dias, ventana) ==
  IF dias = PyNone THEN PyNone
  ELSE [k |-> "pct", num |-> 100 * clamp(dias, Number(0), Number(ventana)).v, den |-> ventana]

\* dot() of timeline_html: no marker for None, else a marker at pos_pct
dot(d, ventana) == IF d = PyNone THEN PyNone ELSE pos_pct(d, ventana)

timeline_html(dias_ja, dias_ap, dias_fa, ventana) ==
  [JA |-> dot(dias_ja, ventana), AP |-> dot(dias_ap, ventana), FA |-> dot(dias_fa, ventana)]

\* [v for v in vals if v is not None]
NotNone(vals) == SelectSeq(vals, LAMBDA v : v # PyNone)

\* min_no_null of RESUMEN, on [dias_JA, dias_AP, dias_FA]
min_no_null(vals) == IF NotNone(vals) # <<>> THEN PyMin(NotNone(vals)) ELSE PyNone

\* min_no_null of TABLERO
min_no_null_tablero(vals) == IF NotNone(vals) # <<>> THEN PyMin(NotNone(vals)) ELSE Number(999999)

\* "SELECT ... FROM licitaciones ORDER BY id DESC"
SelectDesc(t) == [i \in 1..Len(t) |-> [id |-> Len(t) + 1 - i, rec |-> t[Len(t) + 1 - i]]]

\* df[col].dt.date.apply(dias_a) after pd.to_datetime(df[col], errors="coerce")
DiasColumn(q, col, hoy) == SeriesApply([i \in 1..Len(q) |-> dias_a(ToDatetime(q[i].rec[col]), hoy)])

\* the frame of both pages: one row per record, newest first, with dias_*
DiasFrame(t, hoy) ==
  LET q == SelectDesc(t)
      ja == DiasColumn(q, "junta_aclaraciones", hoy)
      ap == DiasColumn(q, "apertura", hoy)
      fa == DiasColumn(q, "fallo", hoy)
  IN [i \in 1..Len(q) |->
        [id |-> q[i].id, clave |-> q[i].rec.clave, estatus |-> q[i].rec.estatus,
         dias_JA |-> ja[i], dias_AP |-> ap[i], dias_FA |-> fa[i]]]

\* a.dias_min sorts before b.dias_min: ascending, NaN and None last
Before(a, b) == notna(a.dias_min) /\ (~notna(b.dias_min) \/ a.dias_min.v < b.dias_min.v)

RECURSIVE InsertByDiasMin(_, _)
InsertByDiasMin(row, sorted) ==
  IF sorted = <<>> THEN <<row>>
  ELSE IF Before(row, Head(sorted)) THEN <<row>> \o sorted
  ELSE <<Head(sorted)>> \o InsertByDiasMin(row, Tail(sorted))

\* sort_values("dias_min", ascending=True, na_position="last"); for frames
\* this short the sort keeps rows with equal keys in their order
RECURSIVE SortValues(_)
SortValues(rows) ==
  IF rows = <<>> THEN <<>>
  ELSE InsertByDiasMin(rows[Len(rows)], SortValues(SubSeq(rows, 1, Len(rows) - 1)))

\* the KPI counts of RESUMEN: int((df["dias_min"].notna() & ...).sum())
KpiVencidas(rows) == Cardinality({i \in 1..Len(rows) : notna(rows[i].dias_min) /\ rows[i].dias_min.v < 0})
KpiHoy(rows) == Cardinality({i \in 1..Len(rows) : notna(rows[i].dias_min) /\ rows[i].dias_min.v = 0})
KpiEn7(rows) ==
  Cardinality({i \in 1..Len(rows) :
                 notna(rows[i].dias_min) /\ rows[i].dias_min.v >= 1 /\ rows[i].dias_min.v <= 7})

\* Page RESUMEN with the filters "(Todos)" and "": the KPIs and one
\* container for each row, with its three labels and its timeline
RESUMEN(hoy, modo, ventana) ==
  LET f == DiasFrame(lic, hoy)
      mins == SeriesApply([i \in 1..Len(f) |-> min_no_null(<<f[i].dias_JA, f[i].dias_AP, f[i].dias_FA>>)])
      g == [i \in 1..Len(f) |->
              [id |-> f[i].id, clave |-> f[i].clave, estatus |-> f[i].estatus,
               dias_JA |-> f[i].dias_JA, dias_AP |-> f[i].dias_AP, dias_FA |-> f[i].dias_FA,
               dias_min |-> mins[i],
               JA |-> semaforo(f[i].dias_JA), Apertura |-> semaforo(f[i].dias_AP),
               Fallo |-> semaforo(f[i].dias_FA),
               timeline |-> timeline_html(f[i].dias_JA, f[i].dias_AP, f[i].dias_FA, ventana)]]
      h == IF modo = "Más urgentes primero" THEN SortValues(g) ELSE g
  IN [ name |-> "RESUMEN", tabla |-> lic, modo |-> modo, ventana |-> ventana,
       rows |-> h,
       total |-> Len(h),
       vencidas |-> KpiVencidas(h),
       hoy |-> KpiHoy(h),
       en7 |-> KpiEn7(h) ]

\* the cards of one column of the board, most urgent first
Columna(f, est) ==
  LET subset == SelectSeq(f, LAMBDA r : r.estatus = est)
  IN SortValues([i \in 1..Len(subset) |->
       [id |-> subset[i].id, clave |-> subset[i].clave,
        dias_JA |-> subset[i].dias_JA, dias_AP |-> subset[i].dias_AP, dias_FA |-> subset[i].dias_FA,
        dias_min |-> min_no_null_tablero(<<subset[i].dias_JA, subset[i].dias_AP, subset[i].dias_FA>>),
        JA |-> semaforo(subset[i].dias_JA), Fallo |-> semaforo(subset[i].dias_FA)]])

\* Page TABLERO with the filters "(Todos)" and "": one column for each of estados
TABLERO(hoy) ==
  [ name |-> "TABLERO", tabla |-> lic,
    cols |-> [i \in 1..Len(estados) |-> Columna(DiasFrame(lic, hoy), estados[i])] ]

\* the choices of the select box "Mostrar" and of the slider "Ventana timeline"
Modos == {"Más urgentes primero", "Todo"}
Ventanas == {14, 60, 180}

\* the script runs with page RESUMEN selected; HOY' is the HOY of this run
Resumen(modo, ventana) ==
  /\ UNCHANGED <<lic, pre, df, ret, arg, clock, calc, pass, board, seen, wr, apoyos>>
  /\ op' = "resumen"
  /\ prev' = page
  /\ page' = RESUMEN(HOY', modo, ventana)

\* the script runs with page TABLERO selected
Tablero ==
  /\ UNCHANGED <<lic, pre, df, ret, arg, clock, calc, pass, board, seen, wr, apoyos>>
  /\ op' = "tablero"
  /\ prev' = page
  /\ page' = TABLERO(HOY')

\* midnight
Tick ==
  /\ clock + 1 \in ClockDays
  /\ clock' = clock + 1
  /\ UNCHANGED <<lic, pre, op, df, ret, arg, nops, HOY, page, prev, calc, pass, board, seen, wr, apoyos>>

\* Records with milestone dates come into the table, days pass, the two
\* pages are looked at.
NextUrgency ==
  \/ Tick
  \/ Step /\ Rerun /\ Quiet /\ \E d \in DateBatches : Upsert(d)
  \/ Step /\ Rerun /\ Quiet /\ \E f \in DateForms : Create(f)
  \/ Step /\ Rerun /\ \E modo \in Modos, ventana \in {60} : Resumen(modo, ventana)
  \/ Step /\ Rerun /\ Tablero

SpecUrgency == Init /\ [][NextUrgency]_vars

\* The two helpers on their own: every delta of the range and every window
\* of the slider's ends and default.
DiasRange == -10..70
DiasPool == {PyNone, FloatNaN} \cup {Number(n) : n \in DiasRange}

\* where the KPIs of RESUMEN count a row with this dias_min
Kpi(d) ==
  IF notna(d) /\ d.v < 0 THEN "vencidas"
  ELSE IF notna(d) /\ d.v = 0 THEN "hoy"
  ELSE IF notna(d) /\ d.v >= 1 /\ d.v <= 7 THEN "en7"
  ELSE "--"

Calc(d, ventana) ==
  /\ calc' = [name |-> "calc", dias |-> d, ventana |-> ventana,
              semaforo |-> semaforo(d), kpi |-> Kpi(d), pos_pct |-> pos_pct(d, ventana)]
  /\ UNCHANGED <<lic, pre, op, df, ret, arg, nops, clock, HOY, page, prev, pass, board, seen, wr, apoyos>>

\* Cells of the two flag columns: the words users type for yes and no, in
\* several cases and with blanks around them, and cells that hold no text
FlagCells ==
  { StrCell(<<" ","y","e","s">>),
    StrCell(<<"s","i">>),
    StrCell(<<"S","i"," ">>),
    StrCell(<<"S","Í">>),
    StrCell(<<"s","í">>),
    StrCell(<<"x">>),
    StrCell(<<"X">>),
    StrCell(<<"1">>),
    StrCell(<<"t","r","u","e">>),
    StrCell(<<"T","R","U","E">>),
    StrCell(<<"O","k">>),
    StrCell(<<"O","K">>),
    StrCell(<<"d","o","n","e">>),
    StrCell(<<"D","O","N","E">>),
    StrCell(<<>>),
    StrCell(<<" "," ">>),
    StrCell(<<"L","I","S","T","O">>),
    StrCell(<<"c","a","r","t","a"," ","a","p","o","y","o">>),
    StrCell(<<"s","o","l","i","c","i","t","a","d","o">>),
    StrCell(<<"e","n","v","i","a","d","a">>),
    StrCell(<<"n","o">>),
    StrCell(<<"0">>),
    NaN, NoneCell, NumCell(1), NumCell(0) }

\* _flag_apoyo and _flag_carta on one cell, as the payload calls them
Flag(c) ==
  /\ calc' = [name |-> "flag", cell |-> c, pidio_apoyo |-> _flag_apoyo(c), carta_enviada |-> _flag_carta(c)]
  /\ UNCHANGED <<lic, pre, op, df, ret, arg, nops, clock, HOY, page, prev, pass, board, seen, wr, apoyos>>

\* Headers of sheets and candidate spellings for _pick_col, and the longest
\* lists of them
PickHeaders ==
  { <<" ","C","l","a","v","e">>, <<"E","x","p","e","d","i","e","n","t","e">>, <<"m","o","n","t","o"," "," ","e","s","t","i","m","a","d","o"," ">>, <<"M","o","n","t","o"," ","E","s","t","i","m","a","d","o">>, <<"I","m","p","o","r","t","e">>, <<"N","o","t","a","s">> }

PickCandidates == { <<"C","L","A","V","E">>, <<"E","X","P","E","D","I","E","N","T","E">>, <<"M","O","N","T","O"," ","E","S","T","I","M","A","D","O">>, <<"I","M","P","O","R","T","E">> }

MaxPick == 2

PickLists(S) == UNION {[1..n -> S] : n \in 0..MaxPick}

\* _pick_col(df.columns, *candidates)
Pick(cols, candidates) ==
  /\ calc' = [name |-> "pick", cols |-> cols, candidates |-> candidates, col |-> _pick_col(cols, candidates)]
  /\ UNCHANGED <<lic, pre, op, df, ret, arg, nops, clock, HOY, page, prev, pass, board, seen, wr, apoyos>>

\* one call of one helper on one input
NextHelpers ==
  \/ calc = NoCalc /\ \E d \in DiasPool, ventana \in Ventanas : Calc(d, ventana)
  \/ calc = NoCalc /\ \E c \in FlagCells : Flag(c)
  \/ calc = NoCalc /\ \E cols \in PickLists(PickHeaders), candidates \in PickLists(PickCandidates) : Pick(cols, candidates)

SpecHelpers == Init /\ [][NextHelpers]_vars

\* ------------------------------------------------------------------ concurrent sessions

\* Every browser session runs the script in a thread of its own, and all of
\* them use the one engine on seguimiento.db.  Each "with engine.begin()"
\* takes a connection of its own; sqlite3 opens the transaction at the first
\* INSERT or UPDATE, so the SELECT of the upsert is a read on its own, and
\* the statement that follows is written and committed as one unit.

\* the sheets the sessions import, and the forms they save
ConcBatches ==
  { MkDf(LayoutFull, <<RowA>>), MkDf(LayoutShort, <<RowA2>>), MkDf(LayoutShort, <<RowB, RowA2>>) }

ConcForms == {f \in FormPool : Strip(f.clave) # <<>>}

\* "ACTUALIZAR BASE" in session s: upsert_licitaciones_from_excel up to its
\* loop; keys remembers which keys the table had at that moment
Begin(s, d) ==
  /\ pass[s].pc = "idle"
  /\ pass' = [pass EXCEPT ![s] =
       IF DfEmpty(d) \/ ColumnsOf(d.cols).col_clave = None
       THEN [NoPass EXCEPT !.pc = "done", !.df = d, !.keys = {lic[j].clave : j \in 1..Len(lic)}]
       ELSE [NoPass EXCEPT !.pc = "select", !.df = d, !.i = 1, !.keys = {lic[j].clave : j \in 1..Len(lic)}]]
  /\ op' = "begin"
  /\ UNCHANGED <<lic, pre, df, ret, arg, nops, clock, HOY, page, prev, calc, board, seen, wr, apoyos>>

\* the next iteration of the loop, or its end and the return
Advance(st) ==
  IF st.i < Len(st.df.rows) THEN [st EXCEPT !.pc = "select", !.i = @ + 1, !.id = 0]
  ELSE [st EXCEPT !.pc = "done", !.id = 0]

\* the payload of the row that session s is at
RowPayload(st) == PayloadOf(st.df.cols, ColumnsOf(st.df.cols), st.df.rows[st.i])

\* one row up to "exists = conn.execute(SELECT id ...).fetchone()"
RowSelect(s) ==
  LET st == pass[s]
      p == RowPayload(st)
  IN /\ st.pc = "select"
     /\ pass' = [pass EXCEPT ![s] =
          IF p.clave = <<>> THEN Advance(st)
          ELSE IF ~p.ok THEN [st EXCEPT !.pc = "done", !.raised = TRUE]
          ELSE [st EXCEPT !.pc = "write", !.id = SelectId(lic, p.clave)]]
     /\ op' = "select"
     /\ UNCHANGED <<lic, pre, df, ret, arg, nops, clock, HOY, page, prev, calc, board, seen, wr, apoyos>>

\* the UPDATE ... WHERE id=:id or the INSERT of the row, and the commit at
\* the end of the with block; an INSERT of a key that is in the table by now
\* raises IntegrityError out of the upsert
RowWrite(s) ==
  LET st == pass[s]
      p == RowPayload(st)
      dup == st.id = 0 /\ UniqueViolation(lic, p.clave, 0)
  IN /\ st.pc = "write"
     /\ lic' = IF dup THEN lic
               ELSE IF st.id # 0 THEN [lic EXCEPT ![st.id] = UpsertUpdate(@, p)]
               ELSE Append(lic, InsertRow(p))
     /\ pass' = [pass EXCEPT ![s] =
          IF dup THEN [st EXCEPT !.pc = "done", !.raised = TRUE]
          ELSE IF st.id # 0 THEN Advance([st EXCEPT !.updated = @ + 1])
          ELSE Advance([st EXCEPT !.inserted = @ + 1])]
     /\ wr' = IF dup THEN wr
              ELSE IF st.id # 0 THEN [id |-> st.id, p |-> p, before |-> <<lic[st.id]>>]
              ELSE [id |-> Len(lic) + 1, p |-> p, before |-> <<>>]
     /\ op' = "row"
     /\ UNCHANGED <<pre, df, ret, arg, nops, clock, HOY, page, prev, calc, board, seen, apoyos>>

\* "Actualizar" on the card i of column c of the board as it was rendered,
\* with nuevo chosen in its select box
Click(c, i, nuevo) ==
  /\ page.name = "TABLERO"
  /\ board.pc = "idle"
  /\ c \in 1..Len(page.cols)
  /\ i \in 1..Len(page.cols[c])
  /\ nuevo # estados[c]
  /\ lic' = [lic EXCEPT ![page.cols[c][i].id] = MoveUpdate(@, nuevo)]
  /\ board' = [pc |-> "moved", tabla |-> page.tabla, id |-> page.cols[c][i].id, e |-> nuevo]
  /\ wr' = NoWr
  /\ op' = "click"
  /\ UNCHANGED <<pre, df, ret, arg, clock, page, prev, calc, pass, seen, apoyos>>

\* sql_df("SELECT * FROM licitaciones ...") in some session
Read ==
  /\ seen' = [tabla |-> lic, wr |-> wr]
  /\ op' = "read"
  /\ UNCHANGED <<lic, pre, df, ret, arg, nops, clock, HOY, page, prev, calc, pass, board, wr, apoyos>>

\* Two sessions import while a third saves a form, looks at the board and
\* moves a card, and the pages of all of them read the table.
NextSessions ==
  \/ Step /\ Rerun /\ Quiet /\ \E f \in ConcForms : Create(f)
  \/ \E s \in Sessions, d \in ConcBatches : Begin(s, d)
  \/ \E s \in Sessions : RowSelect(s)
  \/ \E s \in Sessions : RowWrite(s)
  \/ Step /\ Rerun /\ Tablero
  \/ Step /\ Rerun /\ \E c \in 1..Len(estados), i \in 1..Len(lic), nuevo \in EstadosSet : Click(c, i, nuevo)
  \/ Read

SpecSessions == Init /\ [][NextSessions]_vars

\* ------------------------------------------------------------------ vocabulary of the properties

\* the key header of sheet d, and the key cell of its row i
KeyColOf(d) == ColumnsOf(d.cols).col_clave
KeyCell(d, i) == Get(d.cols, d.rows[i], KeyColOf(d))

\* a cell that is empty, whitespace-only or missing
BlankCell(c) == c.t \in {"nan", "none"} \/ (c.t = "str" /\ Strip(c.s) = <<>>)

\* the rows of d that carry a key, and the key they carry
KeyedRows(d) == {i \in 1..Len(d.rows) : KeyColOf(d) # None /\ ~BlankCell(KeyCell(d, i))}
RowKey(d, i) == Strip(KeyCell(d, i).s)
AllKeyed(d) == d.rows # <<>> /\ KeyedRows(d) = 1..Len(d.rows)
BatchKeys(d) == {RowKey(d, i) : i \in KeyedRows(d)}

StoreKeys(t) == {t[i].clave : i \in 1..Len(t)}
RecordsOf(t, k) == {i \in 1..Len(t) : t[i].clave = k}

\* the sheet has a header that is an accepted spelling of the key column
HasKeyHeader(d) ==
  \E i \in 1..Len(d.cols), j \in 1..Len(CandClave) : _norm_col(d.cols[i]) = _norm_col(CandClave[j])

Returned(ins, upd) == ret = [inserted |-> ins, updated |-> upd, raised |-> FALSE]

\* ------------------------------------------------------------------ properties

\* C1: column-independence.  After an upsert whose sheet lacks the column of
\* a field, every record that was already there and whose key is in the
\* sheet keeps its previous value of that field.
C1_ColumnIndependence ==
  op = "upsert" =>
    \A id \in 1..Len(pre) :
      pre[id].clave \in BatchKeys(df) =>
        /\ ColumnsOf(df.cols).col_titulo = None => lic[id].titulo = pre[id].titulo
        /\ ColumnsOf(df.cols).col_monto = None => lic[id].monto_estimado = pre[id].monto_estimado
        /\ ColumnsOf(df.cols).col_fallo = None => lic[id].fallo = pre[id].fallo
        /\ ColumnsOf(df.cols).col_estatus = None => lic[id].estatus = pre[id].estatus
        /\ ColumnsOf(df.cols).col_solicita_apoyo = None => lic[id].pidio_apoyo = pre[id].pidio_apoyo

C3_KeyUnique ==
  \A i, j \in 1..Len(lic) :
    (lic[i].clave = lic[j].clave /\ lic[i].clave # <<>>) => i = j

\* the form tried to give a record the key of another record, and was refused
C3_Witness ==
  /\ op = "edit"
  /\ ret.raised
  /\ Len(lic) >= 2
  /\ FormPayload(arg.form).clave # <<>>
  /\ \E i \in 1..Len(lic) : i # arg.id /\ lic[i].clave = FormPayload(arg.form).clave

C5_DuplicateMerge ==
  ( /\ op = "upsert"
    /\ ~ret.raised
    /\ Len(df.rows) = 2
    /\ AllKeyed(df)
    /\ Cardinality(BatchKeys(df)) = 1
    /\ ColumnsOf(df.cols).col_titulo # None
    /\ ColumnsOf(df.cols).col_monto # None )
  => \A id \in 1..Len(lic) :
       lic[id].clave \in BatchKeys(df) =>
         LET t1 == Get(df.cols, df.rows[1], ColumnsOf(df.cols).col_titulo)
             t2 == Get(df.cols, df.rows[2], ColumnsOf(df.cols).col_titulo)
             m1 == Get(df.cols, df.rows[1], ColumnsOf(df.cols).col_monto)
             m2 == Get(df.cols, df.rows[2], ColumnsOf(df.cols).col_monto)
         IN /\ ~BlankCell(t2) => lic[id].titulo = _txt(t2)
            /\ (BlankCell(t2) /\ ~BlankCell(t1)) => lic[id].titulo = _txt(t1)
            /\ ~BlankCell(m2) => lic[id].monto_estimado = PyFloat(m2).v
            /\ (BlankCell(m2) /\ ~BlankCell(m1)) => lic[id].monto_estimado = PyFloat(m1).v

\* C6: empty-key rows.  A row whose key cell is blank creates and modifies
\* nothing and is not counted: the counters add up to the rows that carry a
\* key, every new record has the key of such a row, and records whose key no
\* such row carries are as they were.
C6_EmptyKeyRows ==
  (op = "upsert" /\ ~ret.raised /\ KeyColOf(df) # None) =>
    /\ ret.inserted + ret.updated = Cardinality(KeyedRows(df))
    /\ \A id \in (Len(pre) + 1)..Len(lic) : lic[id].clave \in BatchKeys(df)
    /\ \A id \in 1..Len(pre) : pre[id].clave \notin BatchKeys(df) => lic[id] = pre[id]

\* C7: missing key column.  A sheet with no accepted spelling of the key
\* header changes nothing and returns (0, 0).
C7_MissingKeyColumn ==
  (op = "upsert" /\ ~HasKeyHeader(df)) => (Returned(0, 0) /\ lic = pre)

\* a sheet with rows and no key header was imported into a table with records
C7_Witness ==
  /\ op = "upsert"
  /\ ~HasKeyHeader(df)
  /\ df.rows # <<>>
  /\ pre # <<>>

\* C8: missing key column is reported.  What the caller gets from a sheet
\* with rows and no key column differs from what it gets from an empty sheet.
C8_MissingKeyReported ==
  (op = "upsert" /\ df.rows # <<>> /\ ~HasKeyHeader(df)) =>
    LET e == upsert_licitaciones_from_excel(EmptyDf, pre)
    IN ret # [inserted |-> e.inserted, updated |-> e.updated, raised |-> e.raised]

\* the amount cell c is a non-negative number
NonNegAmount(c) ==
  \/ c.t = "num" /\ c.n >= 0
  \/ c.t = "str" /\ ParseFloat(c.s).ok /\ ParseFloat(c.s).v >= 0

\* C9: unparseable amount.  No import raises, and the record of a row whose
\* amount cell is no non-negative number has amount 0 (the last row of each
\* key decides).
C9_UnparseableAmount ==
  (op = "upsert" /\ KeyColOf(df) # None /\ ColumnsOf(df.cols).col_monto # None) =>
    /\ ~ret.raised
    /\ \A i \in KeyedRows(df) :
         ( /\ \A j \in KeyedRows(df) : j > i => RowKey(df, j) # RowKey(df, i)
           /\ ~NonNegAmount(Get(df.cols, df.rows[i], ColumnsOf(df.cols).col_monto)) )
         => \A id \in RecordsOf(lic, RowKey(df, i)) : lic[id].monto_estimado = 0

\* C10: row independence.  Whatever fails in one row, the pass returns its
\* pair and every row that carries a key has its record.
C10_RowIndependence ==
  (op = "upsert" /\ KeyColOf(df) # None) =>
    /\ ~ret.raised
    /\ \A i \in KeyedRows(df) : RecordsOf(lic, RowKey(df, i)) # {}

\* the cell holds a date: a date cell, or the text of a date
IsDateCell(c) == c.t = "ts" \/ (c.t = "str" /\ ParseIsoDay(c.s) # 0)

\* the milestone columns of the table with the local that names their header
Milestones ==
  { [field |-> "junta_aclaraciones", col |-> "col_ja", dias |-> "dias_JA"],
    [field |-> "apertura", col |-> "col_apertura", dias |-> "dias_AP"],
    [field |-> "fallo", col |-> "col_fallo", dias |-> "dias_FA"] }

\* C11: unparseable date.  No import raises on a date cell; the record of a
\* row has the empty text (unknown) for every milestone whose cell holds no
\* date (the last row of each key decides); and on page RESUMEN a milestone
\* stored as unknown has a null day-delta.
C11_UnparseableDate ==
  /\ (op = "upsert" /\ KeyColOf(df) # None) =>
       /\ ~ret.raised
       /\ \A i \in KeyedRows(df), m \in Milestones :
            ( /\ \A j \in KeyedRows(df) : j > i => RowKey(df, j) # RowKey(df, i)
              /\ ColumnsOf(df.cols)[m.col] # None
              /\ ~IsDateCell(Get(df.cols, df.rows[i], ColumnsOf(df.cols)[m.col])) )
            => \A id \in RecordsOf(lic, RowKey(df, i)) : lic[id][m.field] = <<>>
  /\ op = "resumen" =>
       \A i \in 1..Len(page.rows), m \in Milestones :
         page.tabla[page.rows[i].id][m.field] = <<>> => ~notna(page.rows[i][m.dias])

\* C12: reconciliation never deletes.  After an import every key that was
\* in the table is still in it and the table has no fewer records.
C12_NeverDeletes ==
  op = "upsert" =>
    /\ StoreKeys(pre) \subseteq StoreKeys(lic)
    /\ Len(lic) >= Len(pre)
    /\ \A id \in 1..Len(pre) : lic[id].clave = pre[id].clave

\* an import into a table with records has updated one and inserted another
C12_Witness ==
  /\ op = "upsert"
  /\ pre # <<>>
  /\ ret.updated >= 1
  /\ ret.inserted >= 1
  /\ StoreKeys(pre) \ BatchKeys(df) # {}

\* C20: invalid status transition.  No operation gives a record a status
\* that is not one of the five estados: a record's status after an
\* operation is its status before it or one of the five, and an operation
\* asked for another status is refused.
C20_InvalidStatus ==
  /\ \A id \in 1..Len(pre) :
        (id <= Len(lic) /\ lic[id].estatus # pre[id].estatus) => lic[id].estatus \in EstadosSet
  /\ (op = "edit" /\ Strip(arg.form.estatus) \notin EstadosSet) => (ret.raised /\ lic = pre)

\* the label that the bands give to the day-delta d: overdue with |d|, due
\* today, due soon with d, scheduled with d, or none for a null delta
BandOf(d) ==
  IF ~notna(d) THEN [band |-> "--", dias |-> PyNone]
  ELSE IF d.v < 0 THEN [band |-> "rojo Vencido", dias |-> Number(0 - d.v)]
  ELSE IF d.v = 0 THEN [band |-> "naranja Hoy", dias |-> PyNone]
  ELSE IF d.v <= 7 THEN [band |-> "amarillo En", dias |-> Number(d.v)]
  ELSE [band |-> "verde En", dias |-> Number(d.v)]

\* C16: urgency bands.  On page RESUMEN every label of every record is the
\* band of its day-delta (red with |d| below 0, orange at 0, yellow with d
\* from 1 to 7, green with d above 7, none for a null delta), and a record
\* whose overall delta is null is in none of the counts.
C16_UrgencyBands ==
  op = "resumen" =>
    /\ \A i \in 1..Len(page.rows) :
         /\ page.rows[i].JA = BandOf(page.rows[i].dias_JA)
         /\ page.rows[i].Apertura = BandOf(page.rows[i].dias_AP)
         /\ page.rows[i].Fallo = BandOf(page.rows[i].dias_FA)
    /\ page.vencidas + page.hoy + page.en7
         <= Cardinality({i \in 1..Len(page.rows) : notna(page.rows[i].dias_min)})

\* the known day-deltas of a row of a page, and the least of a non-empty set
KnownDeltas(r) == {d \in {r.dias_JA, r.dias_AP, r.dias_FA} : notna(d)}
Least(S) == CHOOSE d \in S : \A e \in S : d.v <= e.v

\* C17: overall delta.  On RESUMEN and on TABLERO the overall delta of a
\* record is the least of its known deltas of junta de aclaraciones,
\* apertura and fallo, in whichever position the unknown ones are; on
\* RESUMEN it is null exactly when the three are unknown.
C17_OverallDelta ==
  /\ op = "resumen" =>
       \A i \in 1..Len(page.rows) :
         LET r == page.rows[i]
         IN IF KnownDeltas(r) = {} THEN ~notna(r.dias_min)
            ELSE r.dias_min = Least(KnownDeltas(r))
  /\ op = "tablero" =>
       \A c \in 1..Len(page.cols) : \A i \in 1..Len(page.cols[c]) :
         LET r == page.cols[c][i]
         IN KnownDeltas(r) # {} => r.dias_min = Least(KnownDeltas(r))

\* C18: explicit reference date.  Two renders of RESUMEN that are given the
\* same table and the same controls show the same day-deltas, labels and
\* counts, whatever time passed between them: nothing but the arguments of
\* the evaluation decides its result.
C18_ExplicitToday ==
  ( /\ page.name = "RESUMEN" /\ prev.name = "RESUMEN"
    /\ page.tabla = prev.tabla /\ page.modo = prev.modo /\ page.ventana = prev.ventana )
  => page = prev

\* C19: timeline projection.  The position of a day-delta d in a window of
\* w days is the fraction 100 * c / w with c = 0 for d < 0, c = w for
\* d >= w and c = d between them, so it is within 0..100; a null delta has
\* no position.
C19_TimelineProjection ==
  calc.name = "calc" =>
    LET d == calc.dias
        w == calc.ventana
        p == calc.pos_pct
    IN IF ~notna(d) THEN p = PyNone
       ELSE /\ p.k = "pct" /\ p.den = w
            /\ p.num = 100 * (IF d.v < 0 THEN 0 ELSE IF d.v >= w THEN w ELSE d.v)
            /\ p.num >= 0 /\ p.num <= 100 * p.den

\* the payload of the last row of sheet d that has the key k
LastPayload(d, k) ==
  LET i == CHOOSE i \in KeyedRows(d) :
             RowKey(d, i) = k /\ \A j \in KeyedRows(d) : j > i => RowKey(d, j) # k
  IN PayloadOf(d.cols, ColumnsOf(d.cols), d.rows[i])

\* C13: no lost update between an import and a move on the board.  When a
\* card has been moved and an import of a sheet without a status column
\* that has the card's key has ended, in whichever order their steps came
\* and with nothing else importing, the record has the status it was moved
\* to and the title, amount and dates of the sheet.
C13_NoLostUpdate ==
  \A s \in Sessions :
    ( /\ board.pc = "moved"
      /\ pass[s].pc = "done" /\ ~pass[s].raised
      /\ ColumnsOf(pass[s].df.cols).col_estatus = None
      /\ lic[board.id].clave \in BatchKeys(pass[s].df)
      /\ \A t \in Sessions \ {s} : pass[t].pc = "idle" )
    => LET r == lic[board.id]
           p == LastPayload(pass[s].df, r.clave)
       IN /\ r.estatus = board.e
          /\ r.titulo = p.titulo /\ r.monto_estimado = p.monto_estimado
          /\ r.junta_aclaraciones = p.junta_aclaraciones /\ r.apertura = p.apertura
          /\ r.fallo = p.fallo

\* C14: two imports of one unseen key.  When two sessions have imported
\* sheets that both have a key the table did not have when either began,
\* and nothing else was done, the table has one record of the key, neither
\* import raised, and for sheets of one row the two returns add up to one
\* insert and one update.
C14_ConcurrentUnseenKey ==
  \A s \in Sessions, t \in Sessions :
    \A k \in BatchKeys(pass[s].df) \cap BatchKeys(pass[t].df) :
      ( /\ s # t /\ nops = 0
        /\ pass[s].pc = "done" /\ pass[t].pc = "done"
        /\ k \notin pass[s].keys \cup pass[t].keys )
      => /\ Cardinality(RecordsOf(lic, k)) = 1
         /\ ~pass[s].raised /\ ~pass[t].raised
         /\ (Len(pass[s].df.rows) = 1 /\ Len(pass[t].df.rows) = 1)
              => /\ pass[s].inserted + pass[t].inserted = 1
                 /\ pass[s].updated + pass[t].updated = 1

\* C15: row atomicity.  Whatever a reader gets from the table while imports
\* run, the record that an import wrote last is there with every field of
\* that row: all of the payload on an INSERT, and on an UPDATE the seven
\* fields it sets from the payload with key, support id, link and notes as
\* they were.
C15_RowAtomicity ==
  seen.wr.id # 0 =>
    LET r == seen.tabla[seen.wr.id]
        p == seen.wr.p
        old == IF seen.wr.before = <<>> THEN p ELSE seen.wr.before[1]
    IN /\ r.clave = p.clave
       /\ r.titulo = p.titulo /\ r.monto_estimado = p.monto_estimado
       /\ r.junta_aclaraciones = p.junta_aclaraciones /\ r.apertura = p.apertura
       /\ r.fallo = p.fallo /\ r.estatus = p.estatus /\ r.pidio_apoyo = p.pidio_apoyo
       /\ r.apoyo_id = old.apoyo_id /\ r.link = old.link /\ r.notas = old.notas

\* a reader reads while an import is between its SELECT and its write, and
\* the last write was an UPDATE that changed the record
C15_Witness ==
  /\ op = "read"
  /\ seen.tabla = lic
  /\ seen.wr.id # 0
  /\ seen.wr.before # <<>>
  /\ seen.wr.before[1] # seen.tabla[seen.wr.id]
  /\ \E s \in Sessions : pass[s].pc = "write"

\* C21: open transitions.  A move changes the status of its record to the
\* state chosen and nothing else in the table, and from every one of the
\* five states the board can move a record to each of the other four.
C21_OpenTransitions ==
  /\ op = "move" =>
       /\ pre[arg.id].estatus \in EstadosSet \ {arg.e}
       /\ arg.e \in EstadosSet
       /\ lic = [pre EXCEPT ![arg.id].estatus = arg.e]
  /\ \A id \in 1..Len(lic), t \in EstadosSet :
       (nops < MaxOps /\ lic[id].estatus \in EstadosSet \ {t})
         => ENABLED (Step /\ Rerun /\ Quiet /\ Move(id, t))

\* a record that was moved to Cancelada is moved on to Abierta, and it has
\* notes and a link to keep
C21_Witness ==
  /\ op = "move"
  /\ pre[arg.id].estatus = <<"C","a","n","c","e","l","a","d","a">>
  /\ lic[arg.id].estatus = <<"A","b","i","e","r","t","a">>
  /\ lic[arg.id].notas # <<>>

\* the words that mean yes
AffirmativeTokens ==
  { <<"Y","E","S">>, <<"S","I">>, <<"S","Í">>, <<"X">>, <<"1">>, <<"T","R","U","E">>, <<"O","K">>, <<"D","O","N","E">> }

\* the text of a cell, trimmed and in upper case; a cell without text has none
TokenOf(c) == IF c.t = "str" THEN Upper(Strip(c.s)) ELSE <<>>

\* C22: affirmative tokens.  Both flags are 1 for a text cell that, trimmed
\* and in upper case, is one of YES, SI, SÍ, X, 1, TRUE, OK, DONE, and both
\* are 0 for a text cell that is empty or blank.
C22_AffirmativeTokens ==
  (calc.name = "flag" /\ calc.cell.t = "str") =>
    /\ TokenOf(calc.cell) \in AffirmativeTokens => (calc.pidio_apoyo = 1 /\ calc.carta_enviada = 1)
    /\ TokenOf(calc.cell) = <<>> => (calc.pidio_apoyo = 0 /\ calc.carta_enviada = 0)

\* the words of a header or of a candidate, in lower case
Words(s) == Split(Lower(s))

\* the headers (by position) that candidate number k of the call matches,
\* and the candidates that match some header
MatchesOf(k) == {i \in 1..Len(calc.cols) : Words(calc.cols[i]) = Words(calc.candidates[k])}
Matching == {k \in 1..Len(calc.candidates) : MatchesOf(k) # {}}

\* C23: column resolution priority.  _pick_col returns a header, as it is
\* written in the sheet, that has the same words as the first candidate
\* that matches any header, whatever later candidates match, and it
\* returns None exactly when no candidate matches.
C23_ColumnPriority ==
  calc.name = "pick" =>
    IF Matching = {} THEN calc.col = None
    ELSE LET k == CHOOSE k \in Matching : \A j \in Matching : k <= j
         IN calc.col \in {calc.cols[i] : i \in MatchesOf(k)}

\* both candidates match, the first one matches the second header, which is
\* written in another case or spacing, and that header is returned
C23_Witness ==
  /\ calc.name = "pick"
  /\ Matching = {1, 2}
  /\ MatchesOf(1) = {2}
  /\ MatchesOf(2) = {1}
  /\ calc.col = calc.cols[2]
  /\ calc.col # calc.candidates[1]

\* C24: status domain invariant.  After any sequence of imports, manual
\* creations, manual edits and board moves from the empty table, the
\* estatus of every record is one of the five estados.
C24_StatusDomain == \A id \in 1..Len(lic) : lic[id].estatus \in EstadosSet

\* C25: key immutability.  No import, manual edit or board move changes
\* the clave of a record that was in the table before it.
C25_KeyImmutable ==
  \A id \in 1..Len(pre) : id <= Len(lic) => lic[id].clave = pre[id].clave

\* C26: non-negative amount invariant.  After any sequence of imports and
\* manual edits the monto_estimado of every record is zero or more; a
\* negative amount cell of a sheet is stored as 0.
C26_NonNegativeAmount == \A id \in 1..Len(lic) : lic[id].monto_estimado >= 0

\* ---------------------------------------------------------------------
\* Page SOLICITUDES DE APOYO: the table apoyos next to the table
\* licitaciones.  The schema declares apoyo_id as a plain INTEGER, with no
\* REFERENCES clause and no trigger.

\* What a user types into the form of a support request
ApoyoForms == { [institucion |-> <<"I">>], [institucion |-> <<"J"," ">>] }

\* a DELETE that also removes the licitaciones that asked for support
DeleteApoyoAndTenders(db, id) ==
  [ lic |-> SelectSeq(db.lic, LAMBDA r : r.pidio_apoyo = 0),
    apoyos |-> SelectSeq(db.apoyos, LAMBDA r : r.id # id) ]

\* DELETE FROM apoyos WHERE id=:id on the database of the two tables
DeleteApoyo(db, id) ==
  [ lic |-> db.lic,
    apoyos |-> SelectSeq(db.apoyos, LAMBDA r : r.id # id) ]

\* the rest of the program stands still while the page of apoyos works
QuietApoyos == UNCHANGED <<clock, page, prev, calc, pass, board, seen, wr>>

\* "GUARDAR" with "Nuevo" selected: INSERT INTO apoyos
GuardarApoyo(a) ==
  /\ apoyos' = [ tabla |-> Append(apoyos.tabla, [id |-> apoyos.seq + 1, institucion |-> Strip(a.institucion)]),
                 seq |-> apoyos.seq + 1,
                 antes |-> apoyos.tabla ]
  /\ lic' = lic
  /\ pre' = lic
  /\ op' = "guardar_apoyo"
  /\ df' = EmptyDf
  /\ ret' = NoRet
  /\ arg' = NoArg

\* "ELIMINAR" with the request id selected
EliminarApoyo(id) ==
  LET db == DeleteApoyo([lic |-> lic, apoyos |-> apoyos.tabla], id)
  IN /\ \E i \in 1..Len(apoyos.tabla) : apoyos.tabla[i].id = id
     /\ apoyos' = [tabla |-> db.apoyos, seq |-> apoyos.seq, antes |-> apoyos.tabla]
     /\ lic' = db.lic
     /\ pre' = lic
     /\ op' = "eliminar_apoyo"
     /\ df' = EmptyDf
     /\ ret' = NoRet
     /\ arg' = [NoArg EXCEPT !.id = id]

NextApoyos ==
  \/ Step /\ Rerun /\ Quiet /\ \E d \in ConcBatches : Upsert(d)
  \/ Step /\ Rerun /\ Quiet /\ \E f \in FormPool : Create(f)
  \/ Step /\ Rerun /\ QuietApoyos /\ \E a \in ApoyoForms : GuardarApoyo(a)
  \/ Step /\ Rerun /\ QuietApoyos /\ \E id \in 1..apoyos.seq : EliminarApoyo(id)

SpecApoyos == Init /\ [][NextApoyos]_vars

\* C27: no cascade through the weak reference.  "ELIMINAR" removes the
\* selected request from apoyos and nothing else: the other requests stay
\* as they were and table licitaciones is the same, row for row, records
\* that asked for support or that carry an apoyo_id included.
C27_NoCascade ==
  op = "eliminar_apoyo" =>
    /\ lic = pre
    /\ apoyos.tabla = SelectSeq(apoyos.antes, LAMBDA r : r.id # arg.id)
    /\ Len(apoyos.tabla) = Len(apoyos.antes) - 1

\* a request is deleted while the table holds a record that asked for support
C27_Witness ==
  /\ op = "eliminar_apoyo"
  /\ Len(apoyos.antes) = 1
  /\ apoyos.tabla = <<>>
  /\ \E id \in 1..Len(lic) : lic[id].pidio_apoyo = 1

\* C28: manual-only fields survive import.  An import never changes the
\* link, the notas or the apoyo_id of a record that was in the table
\* before it, whatever the sheet holds.
C28_ManualFieldsSurvive ==
  op = "upsert" =>
    \A id \in 1..Len(pre) :
      /\ id <= Len(lic)
      /\ lic[id].link = pre[id].link
      /\ lic[id].notas = pre[id].notas
      /\ lic[id].apoyo_id = pre[id].apoyo_id

\* an import changed a record that carries a link and notes
C28_Witness ==
  /\ op = "upsert"
  /\ ret.updated >= 1
  /\ \E id \in 1..Len(pre) :
       /\ lic[id] # pre[id]
       /\ pre[id].link # <<>>
       /\ pre[id].notas # <<>>
       /\ lic[id].link = pre[id].link

\* C29: count accounting.  For every import that returns, inserted plus
\* updated is the number of rows of the sheet that carry a key, and the
\* table has grown by exactly inserted records.
C29_CountAccounting ==
  (op = "upsert" /\ ~ret.raised) =>
    /\ ret.inserted + ret.updated = Cardinality(KeyedRows(df))
    /\ Len(lic) = Len(pre) + ret.inserted

\* rows are in urgency order: non-decreasing least known delta, and the
\* rows without a known delta after all the others
UrgencyOrdered(rows) ==
  \A i \in 1..Len(rows), j \in 1..Len(rows) :
    i < j =>
      /\ KnownDeltas(rows[i]) = {} => KnownDeltas(rows[j]) = {}
      /\ (KnownDeltas(rows[i]) # {} /\ KnownDeltas(rows[j]) # {})
           => Least(KnownDeltas(rows[i])).v <= Least(KnownDeltas(rows[j])).v

\* C30: urgency ordering.  RESUMEN in mode "Más urgentes primero" lists the
\* records by non-decreasing overall delta with the records that have no
\* known milestone last, and every column of TABLERO is in the same order.
C30_UrgencyOrdering ==
  /\ (op = "resumen" /\ page.modo = "Más urgentes primero") => UrgencyOrdered(page.rows)
  /\ op = "tablero" => \A c \in 1..Len(page.cols) : UrgencyOrdered(page.cols[c])

====
